---- MODULE Spec2Model ----
(***************************************************************************)
(* GeminiAPI (src/Notebook/gemini-api.js): a ring of API keys with        *)
(* per-index usage statistics and a sendMessage call that walks the ring  *)
(* until one key answers.                                                  *)
(*                                                                         *)
(* JavaScript runs one callback at a time, so the code between two awaits  *)
(* is one atomic step.  A sendMessage call is therefore two kinds of step: *)
(* its start (precondition, loop up to the first fetch) and the arrival of *)
(* a response (classification of the outcome, then the loop up to the next *)
(* fetch or to the return).  Key indices are 0-based as in the code;       *)
(* apiKeys is a TLA+ sequence, so the key at index i is apiKeys[i + 1].    *)
(*                                                                         *)
(* SearchSystem (src/Notebook/search-system.js): an inverted index from    *)
(* lowercased words to document positions, rebuilt by buildSearchIndex and *)
(* read by search.  Both methods are synchronous.  A JavaScript Set or Map *)
(* iterates in insertion order, so a Set of positions is a sequence        *)
(* without repetition here.  Positions are 0-based as in the code.         *)
(***************************************************************************)
EXTENDS Integers, Sequences, FiniteSets, TLC

\* ---------------------------------------------------------------- bounds
MaxKeys == 3
MaxDocs == 2

\* The key the constructor installs, and the keys callers pass in.
DefaultKey == "K0"
KeyPool == <<"K0", "K1", "K2", "K3", "K4">>
KeyArgs == {"", "K1"}

\* The callers of sendMessage; each of them sends one message.
Callers == {"a", "b"}

\* What one request can come back with: a well-formed answer ("ok"), a 2xx
\* answer without candidates ("malformed"), a 429 or quota/rate error with a
\* readable body ("rate"), another HTTP error ("http"), or a rejected fetch
\* or a body that does not parse ("network").
Outcomes == {"ok", "malformed", "rate", "http", "network"}

VARIABLES
    apiKeys,          \* this.apiKeys
    currentKeyIndex,  \* this.currentKeyIndex
    isConnected,      \* truthiness of this.isConnected
    fallbackEnabled,  \* this.fallbackEnabled
    keyStats,         \* this.keyStats: index -> stats record
    calls,            \* per caller: the frame of its sendMessage call
    lastOp            \* the operation that produced this state

\* The documents the corpora are made of.
DocToan ==
    [name |-> "de_toan_2023.pdf", content |-> "", subject |-> "toanHoc",
     type |-> "pdf", uploadDate |-> 3,
     examInfo |-> [examType |-> "final", year |-> 2023]]
DocVan ==
    [name |-> "de_van_2022.pdf", content |-> "", subject |-> "vanHoc",
     type |-> "pdf", uploadDate |-> 2,
     examInfo |-> [examType |-> "midterm", year |-> 2022]]
DocNotes ==
    [name |-> "On tap", content |-> "TOAN hoc va van", subject |-> "",
     type |-> "", uploadDate |-> 0,
     examInfo |-> [examType |-> "", year |-> 0]]
DocPool == {DocToan, DocVan, DocNotes}

\* the arrays of documents passed to buildSearchIndex and to search
Corpora == UNION {[1..n -> DocPool] : n \in 0..MaxDocs}

\* the query strings passed to search
Queries == {"", " ", "toan", "Toan HOC", "van 2023", "tap final"}

\* the filter objects passed to search: none, an object whose properties
\* are all null, and objects with one or two filters set
AllFilterKeys == {"subject", "dateRange", "fileType", "examType"}
FilterSets ==
    {[keys |-> {}, subject |-> "", dateRange |-> <<>>, fileType |-> "",
      examType |-> ""],
     [keys |-> AllFilterKeys, subject |-> "", dateRange |-> <<>>,
      fileType |-> "", examType |-> ""],
     [keys |-> {"subject"}, subject |-> "vanHoc", dateRange |-> <<>>,
      fileType |-> "", examType |-> ""],
     [keys |-> {"subject", "dateRange"}, subject |-> "toanHoc",
      dateRange |-> <<2, 0>>, fileType |-> "", examType |-> ""],
     [keys |-> {"dateRange"}, subject |-> "", dateRange |-> <<1, 2>>,
      fileType |-> "", examType |-> ""],
     [keys |-> {"dateRange"}, subject |-> "", dateRange |-> <<0, 2>>,
      fileType |-> "", examType |-> ""],
     [keys |-> {"fileType", "examType"}, subject |-> "", dateRange |-> <<>>,
      fileType |-> "pdf", examType |-> "final"]}

\* new Date(start) of a start that is no date: an Invalid Date, which
\* compares false with every date
InvalidDate == -1

\* filter objects with malformed values. A value of another type than a
\* document's (a number as subject, an array as fileType, an object as
\* examType) is written as a string no document has: `===` is false for it
\* with every value of a document. A dateRange that is a string has neither
\* start nor end; a start that is no date is InvalidDate.
MalformedFilterSets ==
    {[keys |-> {"subject", "fileType"}, subject |-> "123",
      dateRange |-> <<>>, fileType |-> "[]", examType |-> ""],
     [keys |-> {"dateRange"}, subject |-> "", dateRange |-> <<0, 0>>,
      fileType |-> "", examType |-> ""],
     [keys |-> {"dateRange", "examType"}, subject |-> "",
      dateRange |-> <<InvalidDate, 0>>, fileType |-> "",
      examType |-> "{}"]}

\* the number of saveSearchHistory calls followed after a page load
MaxSaves == 3

\* `history.length > 10`, `history.splice(10)`
HistoryLimit == 10

\* the queries passed to saveSearchHistory: blank ones, ones with white
\* space around the text, texts that are in the stored histories below and
\* texts that are not, one of them with characters JSON escapes
HistoryQueries ==
    {"", "  ", "final", " van ", "gdcd", "de \"A\\B\"", "toan", "Toan "}

\* the history earlier pages left in localStorage as the page loads: none,
\* one entry short of the limit, and as many entries as the limit
OlderSearches ==
    <<"toan", "van", "ly", "hoa", "sinh", "su", "dia", "anh", "tin", "gdcd">>
StoredHistories ==
    {<<>>, SubSeq(OlderSearches, 1, HistoryLimit - 1),
     SubSeq(OlderSearches, 1, HistoryLimit)}

\* the number of connection timers pending at a time, and the number of
\* messages handed to socket.send that the model follows
MaxTimers == 2
MaxSent == 3

\* the rooms passed to joinRoom
Rooms == {"toan", "van"}

\* the partial queries passed to getSuggestions, and the limits a caller
\* passes after them (the method declares no such parameter)
PartialQueries == {"", "t", "to", "TOAN", "exam", "van"}
Limits == {1, 2, 10}

\* the texts and queries passed to highlightSearchTerms
Texts == {"", "toan hoc", "de_toan_2023.pdf", "TOAN va Toan"}
HighlightQueries == {"", "toan", "Toan", " hoc ", "toan hoc", "."}

VARIABLES
    searchIndex,      \* this.searchIndex: word -> Set of positions
    searched,         \* the last search call: its arguments, what it
                      \* returned, and whether it repeated the call before
    indexed,          \* the last buildSearchIndex call: its argument, and
                      \* whether it found an index with words in it
    answer            \* the last call of getSuggestions,
                      \* getAvailableFilters or highlightSearchTerms: its
                      \* arguments and what it returned

searchVars == <<searchIndex, searched, indexed, answer>>

\* The page the classes run in: the browser's localStorage, which outlives
\* the page, and the RealtimeChatSystem object.
VARIABLES
    storage,          \* localStorage item 'searchHistory': its JSON text,
                      \* "" for no item
    saved,            \* the saveSearchHistory calls made since the page was
                      \* loaded: their number, the query of the last one
                      \* and the last query that was not blank
    chat              \* the RealtimeChatSystem object

pageVars == <<storage, saved, chat>>
keyVars == <<apiKeys, currentKeyIndex, isConnected, fallbackEnabled, keyStats,
             calls, lastOp>>

\* the key named after the length of the ring: added one after the other,
\* these keys are all different
NewKeys == {KeyPool[Len(apiKeys) + 1]}

vars == <<apiKeys, currentKeyIndex, isConnected, fallbackEnabled, keyStats,
          calls, lastOp, searchIndex, searched, indexed, answer, storage,
          saved, chat>>

\* ------------------------------------------------------------ stats records
ZeroStats ==
    [requests |-> 0, errors |-> 0, lastUsed |-> <<>>, status |-> "unknown"]

\* `apiKey && apiKey.length > 0` as a condition
Truthy(apiKey) == apiKey # ""

NoError == [kind |-> "none", key |-> 0, from |-> 0]

IdleFrame ==
    [pc |-> "idle", attempt |-> 0, triedKeys |-> {}, lastError |-> NoError,
     currentKey |-> "", log |-> <<>>,
     result |-> [kind |-> "none", usedKeyIndex |-> 0, error |-> NoError]]

\* The record kept of an operation: its name; for removeApiKey its argument,
\* the index that was current and the number of keys before the call; for
\* addApiKey the index taken out by the removeApiKey call made right before
\* it, if that call took one out; for switchToNextKey the value returned
\* (<<>> standing for null).
Op(name) ==
    [name |-> name, arg |-> 0, cur |-> 0, len |-> 0, after |-> <<>>,
     ret |-> <<>>]

\* new Map()
EmptyIndex == [word \in {} |-> <<>>]

\* a filter object without keys
NoFilters ==
    [keys |-> {}, subject |-> "", dateRange |-> <<>>, fileType |-> "",
     examType |-> ""]

\* no search call has been made, or its result has been taken
NoSearch ==
    [query |-> "", filters |-> NoFilters, files |-> <<>>, positions |-> <<>>,
     result |-> <<>>, called |-> FALSE, again |-> FALSE]

\* none of getSuggestions, getAvailableFilters and highlightSearchTerms
\* has been called
NoAnswer == [op |-> "none", args |-> <<>>, result |-> <<>>]

\* no saveSearchHistory call has been made since the page was loaded
NoSave == [count |-> 0, query |-> "", recent |-> ""]

\* new RealtimeChatSystem(): no socket, not connected, no connection timer
\* pending, no room, nothing handed to socket.send, no call made
NewChat ==
    [socket |-> FALSE, connected |-> FALSE, timers |-> 0, room |-> "",
     sent |-> <<>>, simulation |-> FALSE, op |-> "constructor",
     threw |-> FALSE]

\* ------------------------------------------------------------- constructor
Init ==
    /\ apiKeys = <<DefaultKey>>
    /\ currentKeyIndex = 0
    /\ isConnected = TRUE
    /\ fallbackEnabled = TRUE
    /\ keyStats = [i \in {0} |-> ZeroStats]
    /\ calls = [c \in Callers |-> IdleFrame]
    /\ lastOp = Op("constructor")
    /\ searchIndex = EmptyIndex
    /\ searched = NoSearch
    /\ indexed = [files |-> <<>>, replaced |-> FALSE]
    /\ answer = NoAnswer
    /\ storage = ""
    /\ saved = NoSave
    /\ chat = NewChat

\* --------------------------------------------------------- key management
\* setApiKey(apiKey)
SetApiKey(apiKey) ==
    /\ IF Len(apiKeys) = 0
       THEN /\ apiKeys' = Append(apiKeys, apiKey)
            /\ currentKeyIndex' = 0
       ELSE /\ apiKeys' = [apiKeys EXCEPT ![currentKeyIndex + 1] = apiKey]
            /\ UNCHANGED currentKeyIndex
    /\ isConnected' = Truthy(apiKey)
    /\ lastOp' = Op("setApiKey")
    /\ UNCHANGED <<fallbackEnabled, keyStats, calls>>
    /\ UNCHANGED <<searchVars, pageVars>>

\* a bounds test that lets the index one past the last key through
InBoundsInclusive(index, len) == index >= 0 /\ index <= len

\* index >= 0 && index < this.apiKeys.length
InBounds(index, len) == index >= 0 /\ index < len

\* addApiKey(apiKey)
AddApiKey(apiKey) ==
    /\ apiKeys' = Append(apiKeys, apiKey)
    /\ keyStats' = [i \in DOMAIN keyStats \cup {Len(apiKeys)} |->
                       IF i = Len(apiKeys) THEN ZeroStats ELSE keyStats[i]]
    /\ lastOp' = [Op("addApiKey") EXCEPT !.after =
                     IF lastOp.name = "removeApiKey"
                        /\ InBounds(lastOp.arg, lastOp.len)
                     THEN <<lastOp.arg>>
                     ELSE <<>>]
    /\ UNCHANGED <<currentKeyIndex, isConnected, fallbackEnabled, calls>>
    /\ UNCHANGED <<searchVars, pageVars>>

\* apiKeys.splice(index, 1)
Splice(keys, index) ==
    [j \in 1..(Len(keys) - 1) |-> IF j <= index THEN keys[j] ELSE keys[j + 1]]

\* the renumbering without `delete this.keyStats[index]`
RenumberStatsKeepAll(stats, index, newLen) ==
    [newIndex \in 0..(newLen - 1) |->
        IF newIndex \in DOMAIN stats
        THEN stats[newIndex]
        ELSE ZeroStats]

\* delete keyStats[index], then newStats[newIndex] = keyStats[newIndex] || zero
\* for every index of the spliced key list
RenumberStats(stats, index, newLen) ==
    [newIndex \in 0..(newLen - 1) |->
        IF newIndex \in (DOMAIN stats \ {index})
        THEN stats[newIndex]
        ELSE ZeroStats]

\* a removal that leaves currentKeyIndex as it is
ClampIndexNever(cur, newLen) == cur

\* the adjustment of currentKeyIndex after a removal
ClampIndex(cur, newLen) ==
    IF cur >= newLen
    THEN (IF newLen - 1 > 0 THEN newLen - 1 ELSE 0)
    ELSE cur

\* removeApiKey(index)
RemoveApiKey(index) ==
    /\ IF InBounds(index, Len(apiKeys))
       THEN /\ apiKeys' = Splice(apiKeys, index)
            /\ keyStats' = RenumberStats(keyStats, index, Len(apiKeys) - 1)
            /\ currentKeyIndex' = ClampIndex(currentKeyIndex, Len(apiKeys) - 1)
       ELSE UNCHANGED <<apiKeys, keyStats, currentKeyIndex>>
    /\ lastOp' = [Op("removeApiKey") EXCEPT !.arg = index,
                                             !.cur = currentKeyIndex,
                                             !.len = Len(apiKeys)]
    /\ UNCHANGED <<isConnected, fallbackEnabled, calls>>
    /\ UNCHANGED <<searchVars, pageVars>>

\* getCurrentApiKey(): the key, or "" for null
GetCurrentApiKey ==
    IF currentKeyIndex + 1 \in DOMAIN apiKeys
    THEN apiKeys[currentKeyIndex + 1]
    ELSE ""

\* switchToNextKey rotating only from three keys on
NextIndexFromThree(cur, len) ==
    IF len > 2 THEN (cur + 1) % len ELSE cur

\* switchToNextKey going one index back
NextIndexBack(cur, len) ==
    IF len > 1 THEN (cur + len - 1) % len ELSE cur

\* switchToNextKey without the wrap to index 0
NextIndexNoWrap(cur, len) ==
    IF len > 1 THEN cur + 1 ELSE cur

\* the index switchToNextKey leaves in currentKeyIndex
NextIndex(cur, len) ==
    IF len > 1 THEN (cur + 1) % len ELSE cur

\* what switchToNextKey returns, having left index cur current: the key at
\* cur (<<"">> for undefined), or null (<<>>)
SwitchResult(cur, keys) ==
    IF Len(keys) > 1
    THEN <<IF cur + 1 \in DOMAIN keys THEN keys[cur + 1] ELSE "">>
    ELSE <<>>

\* switchToNextKey()
SwitchToNextKey ==
    /\ currentKeyIndex' = NextIndex(currentKeyIndex, Len(apiKeys))
    /\ lastOp' = [Op("switchToNextKey") EXCEPT !.ret =
                     SwitchResult(NextIndex(currentKeyIndex, Len(apiKeys)),
                                  apiKeys)]
    /\ UNCHANGED <<apiKeys, isConnected, fallbackEnabled, keyStats, calls>>
    /\ UNCHANGED <<searchVars, pageVars>>

\* an assignment to the public field fallbackEnabled
SetFallbackEnabled(b) ==
    /\ fallbackEnabled # b
    /\ fallbackEnabled' = b
    /\ lastOp' = Op("setFallbackEnabled")
    /\ UNCHANGED <<apiKeys, currentKeyIndex, isConnected, keyStats, calls>>
    /\ UNCHANGED <<searchVars, pageVars>>

\* ------------------------------------------------------------- sendMessage
\* A step of sendMessage works on s = [cur, stats, now, f]: the instance
\* fields it writes (currentKeyIndex, keyStats), the time new Date() reads
\* (the time advances once per sendMessage call) and its own frame
\* f = [pc, attempt, triedKeys, lastError, currentKey, log, result].
\* f.log lists the requests the call has issued, in order.  An Error object
\* is [kind, key, from]: the kind of its message, the key number the
\* message names, and the number in f.log of the request it was made for.

\* this.apiKeys[i], "" standing for undefined
KeyAt(i) ==
    IF i + 1 \in DOMAIN apiKeys THEN apiKeys[i + 1] ELSE ""

Failure(err) == [kind |-> "failure", usedKeyIndex |-> 0, error |-> err]
\* a result that names slot 0 whatever slot answered
SuccessAtFirst(i) ==
    [kind |-> "success", usedKeyIndex |-> 0, error |-> NoError]

\* {success: true, ..., usedKeyIndex: this.currentKeyIndex}
Success(i) == [kind |-> "success", usedKeyIndex |-> i, error |-> NoError]
Thrown(k) ==
    [kind |-> "throw", usedKeyIndex |-> 0,
     error |-> [kind |-> k, key |-> 0, from |-> 0]]

\* `throw new Error('API key chua duoc cau hinh')` when the guard of the
\* first statement holds
NotConfigured == ~isConnected \/ Len(apiKeys) = 0

\* the return after the for loop
Exhausted(s) ==
    [s EXCEPT !.f.pc = "done", !.f.result = Failure(s.f.lastError)]

\* a TypeError raised inside the catch block leaves sendMessage
Escapes(s) ==
    [s EXCEPT !.f.pc = "done", !.f.result = Thrown("TypeError")]

\* statistics that count a request twice
StatsOnRequestTwice(st, now) ==
    [st EXCEPT !.requests = @ + 2, !.lastUsed = <<now>>, !.status = "active"]

\* the statistics written before the fetch
StatsOnRequest(st, now) ==
    [st EXCEPT !.requests = @ + 1, !.lastUsed = <<now>>, !.status = "active"]

\* the statistics written by the rate-limit branch
StatsOnRateLimit(st) ==
    [st EXCEPT !.status = "limited", !.errors = @ + 1]

\* the statistics written by the catch block
StatsOnCatch(st) ==
    [st EXCEPT !.errors = @ + 1, !.status = "error"]

\* a call that keeps the first error it recorded
RecordedFirst(last, error) == IF last = NoError THEN error ELSE last

\* `lastError = ...`: the assignment replaces the error recorded before
Recorded(last, error) == error

\* the condition under which the rate-limit branch moves to the next key
RotateOnRateLimit == fallbackEnabled /\ Len(apiKeys) > 1

\* a catch block that never moves to the next key
RotateOnCatchNever(tried) == FALSE

\* the condition under which the catch block moves to the next key
RotateOnCatch(tried) == fallbackEnabled /\ Cardinality(tried) < Len(apiKeys)

\* `this.switchToNextKey(); continue;`
RotateAndContinue(s) ==
    [s EXCEPT !.cur = NextIndex(s.cur, Len(apiKeys)), !.f.attempt = @ + 1]

RECURSIVE Loop(_)
RECURSIVE Catch(_, _)

\* the attempt without `triedKeys.add(this.currentKeyIndex)`
AttemptUnmarked(s) ==
    LET t == [s EXCEPT !.f.currentKey = KeyAt(s.cur)]
    IN  IF s.cur \notin DOMAIN s.stats
        THEN Catch(t, "TypeError")
        ELSE [t EXCEPT !.stats[s.cur] = StatsOnRequest(@, s.now),
                       !.f.pc = "waiting",
                       !.f.log = Append(@, [index |-> s.cur,
                                            key |-> KeyAt(s.cur),
                                            outcome |-> "pending"])]

\* from `triedKeys.add` to the awaited fetch
Attempt(s) ==
    LET t == [s EXCEPT !.f.triedKeys = @ \cup {s.cur},
                       !.f.currentKey = KeyAt(s.cur)]
    IN  IF s.cur \notin DOMAIN s.stats
        THEN Catch(t, "TypeError")
        ELSE [t EXCEPT !.stats[s.cur] = StatsOnRequest(@, s.now),
                       !.f.pc = "waiting",
                       !.f.log = Append(@, [index |-> s.cur,
                                            key |-> KeyAt(s.cur),
                                            outcome |-> "pending"])]

\* the for loop running while attempt <= apiKeys.length
LoopOneMore(s) ==
    IF ~(s.f.attempt <= Len(apiKeys))
    THEN Exhausted(s)
    ELSE IF s.cur \in s.f.triedKeys
         THEN Loop(RotateAndContinue(s))
         ELSE Attempt(s)

\* the for loop, from its condition
Loop(s) ==
    IF ~(s.f.attempt < Len(apiKeys))
    THEN Exhausted(s)
    ELSE IF s.cur \in s.f.triedKeys
         THEN Loop(RotateAndContinue(s))
         ELSE Attempt(s)

\* catch (error) { ... }
Catch(s, err) ==
    IF s.cur \notin DOMAIN s.stats
    THEN Escapes(s)
    ELSE LET t == [s EXCEPT !.stats[s.cur] = StatsOnCatch(@),
                            !.f.lastError =
                                Recorded(@, [kind |-> err, key |-> 0,
                                             from |-> Len(s.f.log)])]
         IN  IF RotateOnCatch(t.f.triedKeys)
             THEN Loop(RotateAndContinue(t))
             ELSE Loop([t EXCEPT !.f.attempt = @ + 1])

\* if (!response.ok) { ... rate limit or quota ... }
OnRateLimit(s) ==
    IF s.cur \notin DOMAIN s.stats
    THEN Catch(s, "TypeError")
    ELSE LET t == [s EXCEPT !.stats[s.cur] = StatsOnRateLimit(@),
                            !.f.lastError =
                                Recorded(@, [kind |-> "limited",
                                             key |-> s.cur + 1,
                                             from |-> Len(s.f.log)])]
         IN  IF RotateOnRateLimit
             THEN Loop(RotateAndContinue(t))
             ELSE Catch(t, "api")

\* if (data.candidates && ...) { ... return {success: true, ...} }
OnCandidates(s) ==
    IF s.cur \notin DOMAIN s.stats
    THEN Catch(s, "TypeError")
    ELSE [s EXCEPT !.stats[s.cur].status = "active",
                   !.f.pc = "done",
                   !.f.result = Success(s.cur)]

\* the code after the awaited fetch, by outcome of the request
OnResponse(s, outcome) ==
    CASE outcome = "network"   -> Catch(s, "network")
      [] outcome = "rate"      -> OnRateLimit(s)
      [] outcome = "http"      -> Catch(s, "api")
      [] outcome = "malformed" -> Catch(s, "malformed")
      [] outcome = "ok"        -> OnCandidates(s)

\* the number of sendMessage calls made so far
Started == Cardinality({c \in Callers : calls[c].pc # "idle"})

\* the fields of the instance a step of sendMessage reads and writes
Shared(f, now) ==
    [cur |-> currentKeyIndex, stats |-> keyStats, now |-> now, f |-> f]

Commit(c, s) ==
    /\ currentKeyIndex' = s.cur
    /\ keyStats' = s.stats
    /\ calls' = [calls EXCEPT ![c] = s.f]

\* sendMessage(message, context), up to its first await, return or throw
SendMessage(c) ==
    /\ calls[c].pc = "idle"
    /\ IF NotConfigured
       THEN /\ calls' = [calls EXCEPT ![c] =
                           [IdleFrame EXCEPT !.pc = "done",
                                             !.result = Thrown("NotConfigured")]]
            /\ UNCHANGED <<currentKeyIndex, keyStats>>
       ELSE Commit(c, Loop(Shared(IdleFrame, Started + 1)))
    /\ lastOp' = Op("sendMessage")
    /\ UNCHANGED <<apiKeys, isConnected, fallbackEnabled>>
    /\ UNCHANGED <<searchVars, pageVars>>

\* the awaited request of caller c is answered
Response(c, outcome) ==
    /\ calls[c].pc = "waiting"
    /\ LET f == [calls[c] EXCEPT !.log[Len(calls[c].log)].outcome = outcome]
       IN  Commit(c, OnResponse(Shared(f, Started), outcome))
    /\ lastOp' = Op("sendMessage")
    /\ UNCHANGED <<apiKeys, isConnected, fallbackEnabled>>
    /\ UNCHANGED <<searchVars, pageVars>>

\* the caller takes the result (or the exception) of its finished call
Return(c) ==
    /\ calls[c].pc = "done"
    /\ calls' = [calls EXCEPT ![c] = [IdleFrame EXCEPT !.pc = "returned"]]
    /\ lastOp' = Op("sendMessage")
    /\ UNCHANGED <<apiKeys, currentKeyIndex, isConnected, fallbackEnabled,
                   keyStats>>
    /\ UNCHANGED <<searchVars, pageVars>>

\* ------------------------------------------------------------ SearchSystem
\* Text is a string; a position set is a sequence of positions without
\* repetition, in insertion order.  A document is a record
\* [name, content, subject, type, uploadDate, examInfo] in which "" stands
\* for a text field that is missing, empty or null, 0 for a missing
\* uploadDate (a date is a day number otherwise) and an examInfo with only
\* "" and 0 values for a document without metadata.examInfo (examInfo.year
\* is a number): the code treats
\* these cases alike (`if (file.content)`, `file.subject || ''`, `===` with
\* a filter value that is not empty).  A filter object is a record
\* [keys, subject, dateRange, fileType, examType]: keys are the names of
\* its own properties, "" the value of a property that is missing or null,
\* dateRange <<>> for none and <<start, end>> otherwise, with 0 for a
\* bound that is missing.

UpperCase == "ABCDEFGHIJKLMNOPQRSTUVWXYZ"
LowerCase == "abcdefghijklmnopqrstuvwxyz"

\* the lower-case letter of every upper-case letter
LowerOf ==
    LET letter(i) == SubSeq(UpperCase, i, i)
        place(ch) == CHOOSE i \in 1..Len(UpperCase) : letter(i) = ch
    IN  [ch \in {letter(i) : i \in 1..Len(UpperCase)} |->
            SubSeq(LowerCase, place(ch), place(ch))]

\* one character of String.prototype.toLowerCase
LowerChar(ch) == IF ch \in DOMAIN LowerOf THEN LowerOf[ch] ELSE ch

RECURSIVE ToLowerCase(_)
\* text.toLowerCase()
ToLowerCase(text) ==
    IF text = "" THEN ""
    ELSE LowerChar(Head(text)) \o ToLowerCase(Tail(text))

\* a character \s matches
IsSpace(ch) == ch = " "

RECURSIVE SplitFrom(_, _, _)
\* text.split(/\s+/) with `piece` read so far; inGap: the character before
\* was part of a separator
SplitFrom(text, piece, inGap) ==
    IF text = "" THEN <<piece>>
    ELSE IF IsSpace(Head(text))
         THEN IF inGap
              THEN SplitFrom(Tail(text), piece, TRUE)
              ELSE <<piece>> \o SplitFrom(Tail(text), "", TRUE)
         ELSE SplitFrom(Tail(text), piece \o Head(text), FALSE)

\* text.split(/\s+/)
Split(text) == SplitFrom(text, "", FALSE)

\* query.trim() as a condition: some character is not white space
TrimsToText(text) ==
    \E i \in 1..Len(text) : ~IsSpace(SubSeq(text, i, i))

\* text.includes(term)
Includes(text, term) ==
    \E i \in 0..(Len(text) - Len(term)) :
        SubSeq(text, i + 1, i + Len(term)) = term

\* an add that does not look whether the position is in the set
SetAddAgain(set, position) == Append(set, position)

\* set.add(position)
SetAdd(set, position) ==
    IF \E k \in DOMAIN set : set[k] = position
    THEN set
    ELSE Append(set, position)

\* text.split(/\s+/).filter(word => word.length > 2)
Words(text) == SelectSeq(Split(text), LAMBDA word : Len(word) > 2)

\* the body of words.forEach in addToIndex
AddWord(index, word, fileIndex) ==
    [w \in DOMAIN index \cup {word} |->
        IF w = word
        THEN SetAdd(IF word \in DOMAIN index THEN index[word] ELSE <<>>,
                    fileIndex)
        ELSE index[w]]

RECURSIVE AddWords(_, _, _)
AddWords(index, words, fileIndex) ==
    IF words = <<>> THEN index
    ELSE AddWords(AddWord(index, Head(words), fileIndex), Tail(words),
                  fileIndex)

\* addToIndex(text, fileIndex)
AddToIndex(index, text, fileIndex) ==
    AddWords(index, Words(text), fileIndex)

\* `if (text) this.addToIndex(text.toLowerCase(), fileIndex)`
AddIfPresent(index, text, fileIndex) ==
    IF text # "" THEN AddToIndex(index, ToLowerCase(text), fileIndex)
    ELSE index

\* the body of files.forEach in buildSearchIndex
AddFile(index, file, fileIndex) ==
    LET byName == AddToIndex(index, ToLowerCase(file.name), fileIndex)
        byContent == AddIfPresent(byName, file.content, fileIndex)
        bySubject == AddIfPresent(byContent, file.subject, fileIndex)
        byExamType == AddIfPresent(bySubject, file.examInfo.examType, fileIndex)
    IN  IF file.examInfo.year # 0
        THEN AddToIndex(byExamType, ToLowerCase(ToString(file.examInfo.year)),
                        fileIndex)
        ELSE byExamType

RECURSIVE AddFiles(_, _, _)
\* files.forEach((file, index) => ...) from position fileIndex on
AddFiles(index, files, fileIndex) ==
    IF fileIndex >= Len(files) THEN index
    ELSE AddFiles(AddFile(index, files[fileIndex + 1], fileIndex), files,
                  fileIndex + 1)

\* the index buildSearchIndex(files) leaves: clear(), then every file
BuildIndex(files) == AddFiles(EmptyIndex, files, 0)

\* this.searchIndex.get(term), empty when the index has no such word
IndexGet(index, term) ==
    IF term \in DOMAIN index THEN index[term] ELSE <<>>

RECURSIVE AddAll(_, _)
\* every position of `positions` added to the set `matches`
AddAll(matches, positions) ==
    IF positions = <<>> THEN matches
    ELSE AddAll(SetAdd(matches, Head(positions)), Tail(positions))

RECURSIVE IndexMatches(_, _, _)
\* searchTerms.forEach(term => ...): the index look-ups
IndexMatches(index, searchTerms, matches) ==
    IF searchTerms = <<>> THEN matches
    ELSE IndexMatches(index, Tail(searchTerms),
                      AddAll(matches, IndexGet(index, Head(searchTerms))))

\* `${file.name} ${file.content || ''} ${file.subject || ''}`.toLowerCase(),
\* worked out once for every document
FileTexts ==
    [file \in DocPool |->
        ToLowerCase(file.name \o " " \o file.content \o " " \o file.subject)]
FileText(file) == FileTexts[file]

\* a scan that takes a file containing one of the terms
HasSomeTerm(file, searchTerms) ==
    \E k \in DOMAIN searchTerms : Includes(FileText(file), searchTerms[k])

\* searchTerms.every(term => fileText.includes(term))
HasAllTerms(file, searchTerms) ==
    LET fileText == FileText(file)
    IN  \A k \in DOMAIN searchTerms : Includes(fileText, searchTerms[k])

RECURSIVE ScanMatches(_, _, _, _)
\* files.forEach((file, index) => ...): the scan of the texts
ScanMatches(searchTerms, files, index, matches) ==
    IF index >= Len(files) THEN matches
    ELSE ScanMatches(searchTerms, files, index + 1,
                     IF HasAllTerms(files[index + 1], searchTerms)
                     THEN SetAdd(matches, index)
                     ELSE matches)

\* searchByText(searchTerms, files)
SearchByText(index, searchTerms, files) ==
    ScanMatches(searchTerms, files, 0, IndexMatches(index, searchTerms, <<>>))

\* files.map((_, index) => index)
AllPositions(files) == [k \in 1..Len(files) |-> k - 1]

\* files[index] is a document
Defined(files, index) == index + 1 \in DOMAIN files

\* filterBySubject(results, subject, files)
FilterBySubject(results, subject, files) ==
    SelectSeq(results, LAMBDA index :
        Defined(files, index) /\ files[index + 1].subject = subject)

\* the range test with the upper bound ignored
InRangeFromStart(uploadDate, dateRange) ==
    dateRange[1] = 0
        \/ (dateRange[1] # InvalidDate /\ uploadDate >= dateRange[1])

\* (!start || uploadDate >= start) && (!end || uploadDate <= end)
InRange(uploadDate, dateRange) ==
    /\ dateRange[1] = 0
          \/ (dateRange[1] # InvalidDate /\ uploadDate >= dateRange[1])
    /\ dateRange[2] = 0
          \/ (dateRange[2] # InvalidDate /\ uploadDate <= dateRange[2])

\* filterByDateRange(results, dateRange, files)
FilterByDateRange(results, dateRange, files) ==
    SelectSeq(results, LAMBDA index :
        /\ Defined(files, index)
        /\ files[index + 1].uploadDate # 0
        /\ InRange(files[index + 1].uploadDate, dateRange))

\* filterByFileType(results, fileType, files)
FilterByFileType(results, fileType, files) ==
    SelectSeq(results, LAMBDA index :
        Defined(files, index) /\ files[index + 1].type = fileType)

\* filterByExamType(results, examType, files)
FilterByExamType(results, examType, files) ==
    SelectSeq(results, LAMBDA index :
        Defined(files, index) /\ files[index + 1].examInfo.examType = examType)

\* `if (!query && Object.keys(filters).length === 0)`
PassThrough(query, filters) == query = "" /\ filters.keys = {}

\* query.toLowerCase().split(/\s+/), worked out once for every query
SearchTerms == [query \in Queries |-> Split(ToLowerCase(query))]

\* the candidate positions: the text search, or every position
Candidates(index, query, files) ==
    IF query # "" /\ TrimsToText(query)
    THEN SearchByText(index, SearchTerms[query], files)
    ELSE AllPositions(files)

\* the chain of filters, each applied when its value is set
Filtered(results, filters, files) ==
    LET bySubject == IF filters.subject # ""
                     THEN FilterBySubject(results, filters.subject, files)
                     ELSE results
        byDate == IF filters.dateRange # <<>>
                  THEN FilterByDateRange(bySubject, filters.dateRange, files)
                  ELSE bySubject
        byType == IF filters.fileType # ""
                  THEN FilterByFileType(byDate, filters.fileType, files)
                  ELSE byDate
    IN  IF filters.examType # ""
        THEN FilterByExamType(byType, filters.examType, files)
        ELSE byType

\* Array.from(results): the positions left after the filters
ResultPositions(index, query, filters, files) ==
    Filtered(Candidates(index, query, files), filters, files)

\* the positions of the documents search returns, in the order returned:
\* Array.from(results), less the positions files has no document at
FoundPositions(index, query, filters, files) ==
    IF PassThrough(query, filters)
    THEN AllPositions(files)
    ELSE SelectSeq(ResultPositions(index, query, filters, files),
                   LAMBDA position : Defined(files, position))

\* a pass-through that hands back the first document only
UnfilteredFirst(files) ==
    IF files = <<>> THEN files ELSE <<Head(files)>>

\* `return files` of the pass-through
Unfiltered(files) == files

\* files[index] of a position files has no document at
Undefined == [undefined |-> TRUE]

\* .map(index => files[index])
Documents(files, positions) ==
    [k \in DOMAIN positions |->
        IF Defined(files, positions[k]) THEN files[positions[k] + 1]
        ELSE Undefined]

\* a result that keeps the positions without a document
KeepUndefined(documents) == documents

\* .filter(Boolean)
FilterBoolean(documents) ==
    SelectSeq(documents, LAMBDA document : document # Undefined)

\* a search that registers the terms it looks up
IndexRegistering(index, query) ==
    [w \in DOMAIN index \cup {query} |->
        IF w \in DOMAIN index THEN index[w] ELSE <<>>]

\* the index after search(query, ...): has() and get() only read it
IndexAfterSearch(index, query) == index

\* a build that keeps what the index holds
NotCleared(index) == index

\* this.searchIndex.clear()
Cleared(index) == EmptyIndex

\* buildSearchIndex(files)
BuildSearchIndex(files) ==
    /\ ~searched.called
    /\ searchIndex' = AddFiles(Cleared(searchIndex), files, 0)
    /\ indexed' = [files |-> files, replaced |-> searchIndex # EmptyIndex]
    /\ UNCHANGED <<searched, answer>>
    /\ UNCHANGED <<keyVars, pageVars>>

\* search(query, filters, files)
Search(query, filters, files) ==
    /\ LET positions == FoundPositions(searchIndex, query, filters, files)
       IN  searched' = [query |-> query, filters |-> filters, files |-> files,
                        positions |-> positions,
                        result |-> IF PassThrough(query, filters)
                                   THEN Unfiltered(files)
                                   ELSE FilterBoolean(Documents(files,
                                            ResultPositions(searchIndex,
                                                query, filters, files))),
                        called |-> TRUE, again |-> searched.called]
    /\ searchIndex' = IndexAfterSearch(searchIndex, query)
    /\ UNCHANGED <<indexed, answer>>
    /\ UNCHANGED <<keyVars, pageVars>>

\* the caller has taken the result of the last search call
TakeResult ==
    /\ searched.called
    /\ searched' = NoSearch
    /\ UNCHANGED <<searchIndex, indexed, answer>>
    /\ UNCHANGED <<keyVars, pageVars>>

\* ------------------------------------------- SearchSystem, the utilities
\* the subject codes getSuggestions goes through, and their display names
\* (written without diacritics here)
SubjectCodes == <<"toanHoc", "vanHoc", "tiengAnh", "vatLy">>
SubjectNames ==
    [code \in {"toanHoc", "vanHoc", "tiengAnh", "vatLy"} |->
        CASE code = "toanHoc"  -> "Toan cao cap"
          [] code = "vanHoc"   -> "Van hoc dai cuong"
          [] code = "tiengAnh" -> "Tieng Anh dai hoc"
          [] code = "vatLy"    -> "Vat ly dai cuong"]

\* getSubjectName(subject)
GetSubjectName(subject) ==
    IF subject \in DOMAIN SubjectNames THEN SubjectNames[subject] ELSE subject

\* the exam types getSuggestions goes through
ExamTypes == <<"midterm", "final", "quiz", "exam">>

\* .slice(0, 10)
SuggestionLimit == 10

RECURSIVE SuggestNames(_, _, _)
\* files.forEach(file => ...): the file names containing the query
SuggestNames(suggestions, queryLower, files) ==
    IF files = <<>> THEN suggestions
    ELSE SuggestNames(IF Includes(ToLowerCase(Head(files).name), queryLower)
                      THEN SetAdd(suggestions, Head(files).name)
                      ELSE suggestions,
                      queryLower, Tail(files))

RECURSIVE SuggestSubjects(_, _, _)
\* subjects.forEach(subject => ...)
SuggestSubjects(suggestions, queryLower, subjects) ==
    IF subjects = <<>> THEN suggestions
    ELSE SuggestSubjects(IF Includes(ToLowerCase(Head(subjects)), queryLower)
                         THEN SetAdd(suggestions, GetSubjectName(Head(subjects)))
                         ELSE suggestions,
                         queryLower, Tail(subjects))

RECURSIVE SuggestExamTypes(_, _, _)
\* examTypes.forEach(type => ...)
SuggestExamTypes(suggestions, queryLower, examTypes) ==
    IF examTypes = <<>> THEN suggestions
    ELSE SuggestExamTypes(IF Includes(ToLowerCase(Head(examTypes)), queryLower)
                          THEN SetAdd(suggestions, Head(examTypes))
                          ELSE suggestions,
                          queryLower, Tail(examTypes))

\* Array.from(suggestions).slice(0, 10)
Slice(suggestions) ==
    SubSeq(suggestions, 1,
           IF Len(suggestions) < SuggestionLimit THEN Len(suggestions)
           ELSE SuggestionLimit)

\* getSuggestions(query, files) called with a third argument, which the
\* method does not read
GetSuggestions(query, files, limit) ==
    IF query = "" \/ Len(query) < 2 THEN <<>>
    ELSE LET queryLower == ToLowerCase(query)
             names == SuggestNames(<<>>, queryLower, files)
             subjects == SuggestSubjects(names, queryLower, SubjectCodes)
         IN  Slice(SuggestExamTypes(subjects, queryLower, ExamTypes))

RECURSIVE Collect(_, _, _)
\* every value of `values` that is set (is not `unset`: "" for a text, 0
\* for a year), added to the Set `found`
Collect(found, values, unset) ==
    IF values = <<>> THEN found
    ELSE Collect(IF Head(values) # unset
                 THEN SetAdd(found, Head(values)) ELSE found,
                 Tail(values), unset)

\* the years left as the Set lists them
Unsorted(years) == years

RECURSIVE SortDescending(_)
\* .sort((a, b) => b - a) of numbers that are all different
SortDescending(years) ==
    IF years = <<>> THEN <<>>
    ELSE LET top == CHOOSE y \in {years[k] : k \in DOMAIN years} :
                        \A k \in DOMAIN years : years[k] <= y
         IN  <<top>> \o SortDescending(SelectSeq(years, LAMBDA y : y # top))

\* getAvailableFilters(files)
GetAvailableFilters(files) ==
    [subjects |-> Collect(<<>>, [k \in DOMAIN files |-> files[k].subject], ""),
     fileTypes |-> Collect(<<>>, [k \in DOMAIN files |-> files[k].type], ""),
     examTypes |-> Collect(<<>>, [k \in DOMAIN files |->
                                    files[k].examInfo.examType], ""),
     years |-> SortDescending(
                  Collect(<<>>, [k \in DOMAIN files |->
                                    files[k].examInfo.year], 0))]

\* the regular expression `(${term})` with flags gi matches the text at
\* position `at`: a dot of the term stands for any character, every other
\* character of the terms used here for itself in either case
MatchesAt(text, at, term) ==
    /\ at + Len(term) - 1 <= Len(text)
    /\ \A k \in 1..Len(term) :
          \/ SubSeq(term, k, k) = "."
          \/ LowerChar(SubSeq(term, k, k))
                = LowerChar(SubSeq(text, at + k - 1, at + k - 1))

RECURSIVE ReplaceFrom(_, _, _)
\* text.replace(regex, '<mark>$1</mark>') from position `at` on
ReplaceFrom(text, at, term) ==
    IF at > Len(text) THEN ""
    ELSE IF MatchesAt(text, at, term)
         THEN "<mark>" \o SubSeq(text, at, at + Len(term) - 1) \o "</mark>"
                  \o ReplaceFrom(text, at + Len(term), term)
         ELSE SubSeq(text, at, at) \o ReplaceFrom(text, at + 1, term)

RECURSIVE HighlightTerms(_, _)
\* terms.forEach(term => ...)
HighlightTerms(highlightedText, terms) ==
    IF terms = <<>> THEN highlightedText
    ELSE HighlightTerms(ReplaceFrom(highlightedText, 1, Head(terms)),
                        Tail(terms))

\* query.split(/\s+/).filter(term => term.length > 0)
HighlightWords(query) == SelectSeq(Split(query), LAMBDA term : Len(term) > 0)

\* highlightSearchTerms(text, query)
HighlightSearchTerms(text, query) ==
    IF query = "" \/ text = "" THEN text
    ELSE HighlightTerms(text, HighlightWords(query))

\* a call of getSuggestions
Suggest(query, files, limit) ==
    /\ answer' = [op |-> "getSuggestions", args |-> <<query, files, limit>>,
                  result |-> GetSuggestions(query, files, limit)]
    /\ UNCHANGED <<searchIndex, searched, indexed>>
    /\ UNCHANGED <<keyVars, pageVars>>

\* a call of getAvailableFilters
AvailableFilters(files) ==
    /\ answer' = [op |-> "getAvailableFilters", args |-> <<files>>,
                  result |-> GetAvailableFilters(files)]
    /\ UNCHANGED <<searchIndex, searched, indexed>>
    /\ UNCHANGED <<keyVars, pageVars>>

\* a call of highlightSearchTerms
Highlight(text, query) ==
    /\ answer' = [op |-> "highlightSearchTerms", args |-> <<text, query>>,
                  result |-> HighlightSearchTerms(text, query)]
    /\ UNCHANGED <<searchIndex, searched, indexed>>
    /\ UNCHANGED <<keyVars, pageVars>>

\* the caller has taken the result of the last utility call
TakeAnswer ==
    /\ answer.op # "none"
    /\ answer' = NoAnswer
    /\ UNCHANGED <<searchIndex, searched, indexed>>
    /\ UNCHANGED <<keyVars, pageVars>>

\* ------------------------------------------- SearchSystem, the history
RECURSIVE TrimStart(_)
TrimStart(text) ==
    IF text # "" /\ IsSpace(Head(text)) THEN TrimStart(Tail(text)) ELSE text

RECURSIVE TrimEnd(_)
TrimEnd(text) ==
    IF text # "" /\ IsSpace(SubSeq(text, Len(text), Len(text)))
    THEN TrimEnd(SubSeq(text, 1, Len(text) - 1))
    ELSE text

\* query.trim()
Trim(text) == TrimEnd(TrimStart(text))

RECURSIVE Escaped(_)
\* the characters of a string as JSON.stringify writes them
Escaped(text) ==
    IF text = "" THEN ""
    ELSE (IF Head(text) \in {"\"", "\\"} THEN "\\" \o Head(text)
          ELSE Head(text)) \o Escaped(Tail(text))

RECURSIVE StringifyItems(_)
StringifyItems(items) ==
    IF items = <<>> THEN ""
    ELSE "\"" \o Escaped(Head(items)) \o "\""
            \o (IF Len(items) > 1 THEN "," ELSE "")
            \o StringifyItems(Tail(items))

\* JSON.stringify(history) of an array of strings
JsonStringify(items) == "[" \o StringifyItems(items) \o "]"

\* the number of backslashes right before character `at` of the text
BackslashesBefore(text, at) ==
    Cardinality({k \in 1..(at - 1) :
                    \A m \in (at - k)..(at - 1) : SubSeq(text, m, m) = "\\"})

\* the positions of the quotes that open or close a string of a JSON text:
\* the quotes without a backslash that escapes them
Delimiters(text) ==
    {at \in 1..Len(text) :
        /\ SubSeq(text, at, at) = "\""
        /\ BackslashesBefore(text, at) % 2 = 0}

\* the n-th position of a set of positions
Nth(positions, n) ==
    CHOOSE at \in positions :
        Cardinality({before \in positions : before < at}) = n - 1

RECURSIVE Unescaped(_)
\* the string a JSON string body stands for
Unescaped(body) ==
    IF body = "" THEN ""
    ELSE IF Head(body) = "\\"
         THEN SubSeq(body, 2, 2) \o Unescaped(SubSeq(body, 3, Len(body)))
         ELSE Head(body) \o Unescaped(Tail(body))

\* JSON.parse(text) of the text of an array of strings: the strings between
\* the first and second delimiter, the third and fourth, and so on
JsonParse(text) ==
    LET quotes == Delimiters(text)
    IN  [n \in 1..(Cardinality(quotes) \div 2) |->
            Unescaped(SubSeq(text, Nth(quotes, 2 * n - 1) + 1,
                             Nth(quotes, 2 * n) - 1))]

\* JSON.parse(localStorage.getItem('searchHistory') || '[]')
StoredHistory(item) == JsonParse(IF item = "" THEN "[]" ELSE item)

\* getSearchHistory()
GetSearchHistory == StoredHistory(storage)

\* history.indexOf(trimmedQuery)
IndexOf(history, trimmedQuery) ==
    IF \E k \in DOMAIN history : history[k] = trimmedQuery
    THEN (CHOOSE k \in DOMAIN history :
             /\ history[k] = trimmedQuery
             /\ \A j \in 1..(k - 1) : history[j] # trimmedQuery) - 1
    ELSE -1

\* `if (index > -1) history.splice(index, 1)`
WithoutEntry(history, index) ==
    IF index > -1
    THEN SubSeq(history, 1, index) \o SubSeq(history, index + 2, Len(history))
    ELSE history

\* a history that is never cut
Uncut(history) == history

\* `if (history.length > 10) history.splice(10)`
Cut(history) ==
    IF Len(history) > HistoryLimit
    THEN SubSeq(history, 1, HistoryLimit)
    ELSE history

\* the history saveSearchHistory stores for a query that is not blank
HistoryWith(history, query) ==
    LET trimmedQuery == Trim(query)
    IN  Cut(<<trimmedQuery>>
               \o WithoutEntry(history, IndexOf(history, trimmedQuery)))

\* `if (!query || query.trim().length === 0) return`
Blank(query) == query = "" \/ Len(Trim(query)) = 0

\* saveSearchHistory(query)
SaveSearchHistory(query) ==
    /\ saved.count < MaxSaves
    /\ storage' = IF Blank(query) THEN storage
                  ELSE JsonStringify(HistoryWith(StoredHistory(storage), query))
    /\ saved' = [count |-> saved.count + 1, query |-> query,
                 recent |-> IF Blank(query) THEN saved.recent ELSE query]
    /\ UNCHANGED <<keyVars, searchVars, chat>>

\* ------------------------------------------------------ RealtimeChatSystem
\* chat = [socket, connected, timers, room, sent, simulation, op, threw]:
\* this.socket is set, this.connected, the connection timeouts pending,
\* this.currentRoom.id ("" for null), the types of the messages handed to
\* socket.send in order, the message simulation runs, the last
\* operation and whether it threw.  socket.send hands the data to
\* this.handleOutgoingMessage, which the class does not define: the call
\* either returns or throws, as the page the class runs in has it.

\* `if (this.socket && this.connected)` of sendWebSocketMessage
Transmits(c) == c.socket /\ c.connected

\* sendWebSocketMessage(message): the message is handed to socket.send
Handed(c, type) ==
    IF Transmits(c) THEN [c EXCEPT !.sent = Append(@, type)] ELSE c

\* the operation ends here when socket.send was called and threw
Aborts(c, throws) == Transmits(c) /\ throws

\* init(userId, userName, userRole): connect, simulateConnection, the
\* timeout is set
ChatInit ==
    /\ chat.timers < MaxTimers
    /\ chat' = [chat EXCEPT !.timers = @ + 1, !.op = "init", !.threw = FALSE]
    /\ UNCHANGED <<keyVars, searchVars, storage, saved>>

\* the callback of the timeout of simulateConnection: the socket is set,
\* handleConnectionSuccess sends user_join, the simulation starts
ConnectionTimer(throws) ==
    /\ chat.timers > 0
    /\ Len(chat.sent) < MaxSent
    /\ LET open == [chat EXCEPT !.timers = @ - 1, !.connected = TRUE,
                                !.socket = TRUE, !.op = "timer"]
           joined == Handed(open, "user_join")
       IN  chat' = IF Aborts(open, throws)
                   THEN [joined EXCEPT !.threw = TRUE]
                   ELSE [joined EXCEPT !.threw = FALSE, !.simulation = TRUE]
    /\ UNCHANGED <<keyVars, searchVars, storage, saved>>

\* disconnect()
Disconnect ==
    /\ chat' = IF chat.socket
               THEN LET closed == [chat EXCEPT !.connected = FALSE]
                        left == Handed(closed, "user_leave")
                    IN  [left EXCEPT !.simulation = FALSE,
                                     !.op = "disconnect", !.threw = FALSE]
               ELSE [chat EXCEPT !.op = "disconnect", !.threw = FALSE]
    /\ UNCHANGED <<keyVars, searchVars, storage, saved>>

\* joinRoom(roomId, roomName)
JoinRoom(roomId) ==
    /\ Len(chat.sent) < MaxSent
    /\ chat' = IF ~chat.connected
               THEN [chat EXCEPT !.op = "joinRoom", !.threw = TRUE]
               ELSE [Handed([chat EXCEPT !.room = roomId], "join_room")
                        EXCEPT !.op = "joinRoom", !.threw = FALSE]
    /\ UNCHANGED <<keyVars, searchVars, storage, saved>>

\* joinRoom(roomId, roomName) when socket.send throws
JoinRoomThrows(roomId) ==
    /\ Len(chat.sent) < MaxSent
    /\ Transmits(chat)
    /\ chat' = [Handed([chat EXCEPT !.room = roomId], "join_room")
                   EXCEPT !.op = "joinRoom", !.threw = TRUE]
    /\ UNCHANGED <<keyVars, searchVars, storage, saved>>

\* leaveRoom()
LeaveRoom(throws) ==
    /\ Len(chat.sent) < MaxSent
    /\ chat' = IF chat.room = ""
               THEN [chat EXCEPT !.op = "leaveRoom", !.threw = FALSE]
               ELSE IF Aborts(chat, throws)
                    THEN [Handed(chat, "leave_room")
                             EXCEPT !.op = "leaveRoom", !.threw = TRUE]
                    ELSE [Handed(chat, "leave_room")
                             EXCEPT !.room = "", !.op = "leaveRoom",
                                    !.threw = FALSE]
    /\ UNCHANGED <<keyVars, searchVars, storage, saved>>

\* ---------------------------------------------------------- specifications
\* no sendMessage call is in progress
Quiet == \A c \in Callers : calls[c].pc \in {"idle", "returned"}

\* Any sequence of calls of the public operations, each call made after the
\* one before it has finished.
Next ==
    \/ Quiet /\ \E k \in KeyArgs : SetApiKey(k)
    \/ Quiet /\ Len(apiKeys) < MaxKeys /\ \E k \in KeyArgs \ {""} : AddApiKey(k)
    \/ Quiet /\ \E i \in -1..MaxKeys : RemoveApiKey(i)
    \/ Quiet /\ SwitchToNextKey
    \/ Quiet /\ \E b \in BOOLEAN : SetFallbackEnabled(b)
    \/ Quiet /\ SendMessage("a")
    \/ \E o \in Outcomes : Response("a", o)
    \/ Return("a")

Spec == Init /\ [][Next]_vars

\* One sendMessage call at a time on a ring set up with the constructor,
\* addApiKey, switchToNextKey and the fallback switch: each call runs on its
\* own, from start to result, and the second call finds the ring as the
\* first one left it.
SoloNext ==
    \/ Quiet /\ Len(apiKeys) < MaxKeys /\ \E k \in NewKeys : AddApiKey(k)
    \/ Quiet /\ SwitchToNextKey
    \/ Quiet /\ \E b \in BOOLEAN : SetFallbackEnabled(b)
    \/ Quiet /\ \E c \in Callers : SendMessage(c)
    \/ \E c \in Callers, o \in Outcomes : Response(c, o)
    \/ \E c \in Callers : Return(c)

SoloSpec == Init /\ [][SoloNext]_vars

\* A ring set up before the first message, then used by the two callers
\* without synchronisation: a caller may start its sendMessage call while
\* the other caller's call waits for a response.
OverlapNext ==
    \/ Started = 0 /\ Len(apiKeys) < MaxKeys /\ \E k \in NewKeys : AddApiKey(k)
    \/ Started = 0 /\ SwitchToNextKey
    \/ Started = 0 /\ \E b \in BOOLEAN : SetFallbackEnabled(b)
    \/ \E c \in Callers : SendMessage(c)
    \/ \E c \in Callers, o \in {"ok", "rate", "network"} : Response(c, o)
    \/ \E c \in Callers : Return(c)

OverlapSpec == Init /\ [][OverlapNext]_vars

\* A ring set up before the message, then one sendMessage call during
\* which the user removes keys: removeApiKey runs while the call waits for
\* a response.
RemovalNext ==
    \/ Started = 0 /\ Len(apiKeys) < MaxKeys /\ \E k \in NewKeys : AddApiKey(k)
    \/ Started = 0 /\ SwitchToNextKey
    \/ Started = 0 /\ \E b \in BOOLEAN : SetFallbackEnabled(b)
    \/ Quiet /\ SendMessage("a")
    \/ calls["a"].pc = "waiting" /\ \E i \in -1..MaxKeys : RemoveApiKey(i)
    \/ \E o \in Outcomes : Response("a", o)
    \/ Return("a")

RemovalSpec == Init /\ [][RemovalNext]_vars

\* A page loaded over the history earlier pages stored, and the
\* saveSearchHistory calls made on it.
HistoryInit ==
    /\ apiKeys = <<DefaultKey>>
    /\ currentKeyIndex = 0
    /\ isConnected = TRUE
    /\ fallbackEnabled = TRUE
    /\ keyStats = [i \in {0} |-> ZeroStats]
    /\ calls = [c \in Callers |-> IdleFrame]
    /\ lastOp = Op("constructor")
    /\ searchIndex = EmptyIndex
    /\ searched = NoSearch
    /\ indexed = [files |-> <<>>, replaced |-> FALSE]
    /\ answer = NoAnswer
    /\ storage \in {IF history = <<>> THEN "" ELSE JsonStringify(history) :
                       history \in StoredHistories}
    /\ saved = NoSave
    /\ chat = NewChat

HistoryNext == \E query \in HistoryQueries : SaveSearchHistory(query)

HistorySpec == HistoryInit /\ [][HistoryNext]_vars

\* Any sequence of init, disconnect, joinRoom and leaveRoom calls on one
\* RealtimeChatSystem, with the connection timeouts firing in between.
ChatNext ==
    \/ ChatInit
    \/ \E throws \in BOOLEAN : ConnectionTimer(throws)
    \/ Disconnect
    \/ \E roomId \in Rooms : JoinRoom(roomId)
    \/ \E roomId \in Rooms : JoinRoomThrows(roomId)
    \/ \E throws \in BOOLEAN : LeaveRoom(throws)

ChatSpec == Init /\ [][ChatNext]_vars

\* SoloSpec with every awaited request answered in the end: fetch settles,
\* and the event loop then runs the continuation of the call.
FairSoloSpec ==
    SoloSpec /\ \A c \in Callers : WF_vars(\E o \in Outcomes : Response(c, o))

\* Any sequence of buildSearchIndex and search calls on one SearchSystem,
\* with every corpus, query and filter object above, and searches of the
\* empty corpus with the malformed filter objects; a search call may be
\* made a second time with the same arguments before its result is taken.
SearchNext ==
    \/ \E files \in Corpora : BuildSearchIndex(files)
    \/ /\ ~searched.called
       /\ \E query \in Queries, filters \in FilterSets, files \in Corpora :
             Search(query, filters, files)
    \/ /\ ~searched.called
       /\ \E query \in Queries, filters \in MalformedFilterSets :
             Search(query, filters, <<>>)
    \/ /\ searched.called /\ ~searched.again
       /\ Search(searched.query, searched.filters, searched.files)
    \/ TakeResult

SearchSpec == Init /\ [][SearchNext]_vars

\* Any sequence of calls of the utilities, which read nothing but their
\* arguments; the caller takes the result of a call before the next call.
UtilityNext ==
    \/ /\ answer.op = "none"
       /\ \E query \in PartialQueries, files \in Corpora, limit \in Limits :
             Suggest(query, files, limit)
    \/ /\ answer.op = "none"
       /\ \E files \in Corpora : AvailableFilters(files)
    \/ /\ answer.op = "none"
       /\ \E text \in Texts, query \in HighlightQueries :
             Highlight(text, query)
    \/ TakeAnswer

UtilitySpec == Init /\ [][UtilityNext]_vars

\* ------------------------------------------------------------------ claims
\* the requests a call has issued, and what they came back with
Log(c) == calls[c].log
Indices(c) == {Log(c)[n].index : n \in DOMAIN Log(c)}
Failed(o) == o \in Outcomes \ {"ok"}
Busy(c) == calls[c].pc \in {"waiting", "done"}
Done(c) == calls[c].pc = "done"

\* slot h is the one healthy slot as far as call c has seen: every request
\* to h was answered well, every request to another slot failed
OnlyHealthy(c, h) ==
    \A n \in DOMAIN Log(c) :
        IF Log(c)[n].index = h
        THEN Log(c)[n].outcome = "ok"
        ELSE Failed(Log(c)[n].outcome)

\* C1: with fallback enabled, a sendMessage call run on its own over a ring
\* in which exactly one slot is healthy returns success with usedKeyIndex
\* the healthy slot, for every number of keys and every starting index.
C1_FindsHealthySlot ==
    \A c \in Callers : \A h \in 0..(Len(apiKeys) - 1) :
        (Done(c) /\ fallbackEnabled /\ OnlyHealthy(c, h))
            => /\ calls[c].result.kind = "success"
               /\ calls[c].result.usedKeyIndex = h

\* three keys, the call started at index 1, failed there and at index 2 in
\* two different ways, wrapped round and succeeded at index 0
C1_Witness ==
    \E c \in Callers :
        /\ Done(c) /\ fallbackEnabled /\ Len(apiKeys) = 3
        /\ Len(Log(c)) = 3
        /\ Log(c)[1].index = 1 /\ Log(c)[1].outcome = "rate"
        /\ Log(c)[2].index = 2 /\ Log(c)[2].outcome = "network"
        /\ Log(c)[3].index = 0 /\ Log(c)[3].outcome = "ok"
        /\ calls[c].result = Success(0)

\* C2: with fallback enabled, a sendMessage call run on its own in which
\* every request fails (rate limit or any other error) issues exactly one
\* request per slot, apiKeys.length requests in all, and returns
\* success: false.
C2_ExhaustsEverySlotOnce ==
    \A c \in Callers :
        (Done(c) /\ fallbackEnabled
                 /\ \A n \in DOMAIN Log(c) : Failed(Log(c)[n].outcome))
            => /\ calls[c].result.kind = "failure"
               /\ Len(Log(c)) = Len(apiKeys)
               /\ Indices(c) = 0..(Len(apiKeys) - 1)

\* three keys, all failing in a mix of rate-limit and other errors, the call
\* started at index 2
C2_Witness ==
    \E c \in Callers :
        /\ Done(c) /\ fallbackEnabled /\ Len(apiKeys) = 3
        /\ Len(Log(c)) = 3
        /\ Log(c)[1].index = 2 /\ Log(c)[1].outcome = "rate"
        /\ Log(c)[2].index = 0 /\ Log(c)[2].outcome = "http"
        /\ Log(c)[3].index = 1 /\ Log(c)[3].outcome = "rate"
        /\ calls[c].result.kind = "failure"

\* C3: with fallback disabled, a sendMessage call whose first request fails
\* issues no second request: the request to the slot current on entry is the
\* only one.
C3_NoRetryWithoutFallback ==
    \A c \in Callers :
        (Busy(c) /\ ~fallbackEnabled /\ Len(Log(c)) >= 1
                 /\ Failed(Log(c)[1].outcome) /\ Log(c)[1].outcome # "pending")
            => Len(Log(c)) = 1

\* C4: within one sendMessage call no slot index has a request issued twice,
\* also when the calls of two callers overlap.
C4_NoSlotTwice ==
    \A c \in Callers :
        \A m, n \in DOMAIN Log(c) :
            Log(c)[m].index = Log(c)[n].index => m = n

\* both calls are in progress over two keys, both have used index 0 and
\* one of them has gone on to another slot
C4_Witness ==
    /\ \A c \in Callers : calls[c].pc = "waiting" /\ Log(c)[1].index = 0
    /\ \E c \in Callers : Len(Log(c)) = 2
    /\ Len(apiKeys) = 2

\* the loop iterations call c has entered
Iterations(c) ==
    IF Done(c) /\ calls[c].result.kind # "success"
    THEN calls[c].attempt
    ELSE calls[c].attempt + 1

\* C5: every sendMessage call whose requests are all answered comes to an
\* end, with a success result or an exhaustion result, and up to there it
\* has issued at most apiKeys.length requests in at most apiKeys.length
\* iterations of its loop.
C5_Terminates ==
    /\ [](\A c \in Callers :
            Busy(c) => /\ Len(Log(c)) <= Len(apiKeys)
                       /\ Iterations(c) <= Len(apiKeys)
                       /\ Done(c) => calls[c].result.kind \in {"success", "failure"})
    /\ \A c \in Callers : (calls[c].pc = "waiting") ~> Done(c)

\* a call over three keys that used all three iterations, one of them to
\* step over a slot it had tried, and ended in exhaustion
C5_Witness ==
    \E c \in Callers :
        /\ Done(c) /\ calls[c].result.kind = "failure"
        /\ Len(apiKeys) = 3 /\ calls[c].attempt = 3 /\ Len(Log(c)) = 2

\* C6: a sendMessage call that has passed the not-configured check ends by
\* returning a result, never by throwing, whatever setApiKey, addApiKey,
\* removeApiKey and switchToNextKey calls came before it.
C6_NeverThrowsPastCheck ==
    \A c \in Callers :
        (Done(c) /\ calls[c].result.kind = "throw")
            => calls[c].result = Thrown("NotConfigured")

\* the ring holds no key (an empty string is no key)
NoKeyConfigured == \A i \in DOMAIN apiKeys : apiKeys[i] = ""

\* C7: sendMessage fails with the not-configured error exactly when no key
\* is configured at the time of the call, and then it issues no request.
C7_NotConfiguredIffNoKey ==
    \A c \in Callers :
        Busy(c) => /\ (Done(c) /\ calls[c].result = Thrown("NotConfigured"))
                        <=> NoKeyConfigured
                   /\ calls[c].result = Thrown("NotConfigured")
                        => Log(c) = <<>>

\* C8: an attempt answered with a rate-limit error leaves the attempted slot
\* with status 'limited' and its error counter one higher, for every number
\* of keys and both values of fallbackEnabled.
C8_RateLimitMarksLimited ==
    [][\A c \in Callers :
         LET n == Len(Log(c))
         IN  (calls[c].pc = "waiting" /\ calls[c]'.log[n].outcome = "rate")
                => LET i == Log(c)[n].index
                   IN  /\ keyStats'[i].status = "limited"
                       /\ keyStats'[i].errors = keyStats[i].errors + 1]_vars

\* C9: currentKeyIndex is a valid index of apiKeys whenever a key exists,
\* and 0 when none exists.
C9_IndexInBounds ==
    IF Len(apiKeys) = 0
    THEN currentKeyIndex = 0
    ELSE currentKeyIndex >= 0 /\ currentKeyIndex <= Len(apiKeys) - 1

\* the last key of a ring of three was current and has just been removed:
\* the index moved down to the new last key
C9_Witness ==
    /\ lastOp.name = "removeApiKey"
    /\ Len(apiKeys) = 2
    /\ lastOp.arg = 2 /\ lastOp.cur = 2
    /\ currentKeyIndex = 1

\* the index a surviving key had before removeApiKey(index)
OldIndex(newIndex, index) ==
    IF newIndex < index THEN newIndex ELSE newIndex + 1

\* C10: removeApiKey(i) with i in bounds keeps, for every surviving key, the
\* stats record of that key under the key's new index.
C10_RemoveKeepsStatsWithKeys ==
    [][(lastOp'.name = "removeApiKey" /\ lastOp'.arg >= 0
                                      /\ lastOp'.arg < Len(apiKeys))
         => \A j \in 0..(Len(apiKeys') - 1) :
               OldIndex(j, lastOp'.arg) \in DOMAIN keyStats
                  => /\ j \in DOMAIN keyStats'
                     /\ keyStats'[j] = keyStats[OldIndex(j, lastOp'.arg)]]_vars

\* C11: removeApiKey(i) with i in bounds, followed by addApiKey(k), leaves a
\* stats mapping without gap and without leak: after the removal and again
\* after the addition the mapping has exactly the indices 0..length-1; the
\* removal fills the mapping only with zeroed records and with records of
\* slots other than the removed one; the addition gives the new slot the
\* zeroed record with status 'unknown' and leaves the other records alone.
C11_RemoveThenAddNoGapNoLeak ==
    [][/\ (lastOp'.name = "removeApiKey"
            /\ InBounds(lastOp'.arg, lastOp'.len))
          => /\ DOMAIN keyStats' = 0..(Len(apiKeys') - 1)
             /\ \A j \in DOMAIN keyStats' :
                   \/ keyStats'[j] = ZeroStats
                   \/ \E m \in DOMAIN keyStats \ {lastOp'.arg} :
                         keyStats'[j] = keyStats[m]
       /\ (lastOp'.name = "addApiKey" /\ lastOp'.after # <<>>)
          => /\ Len(apiKeys') = Len(apiKeys) + 1
             /\ DOMAIN keyStats' = 0..(Len(apiKeys') - 1)
             /\ keyStats'[Len(apiKeys)] = ZeroStats
             /\ ZeroStats.status = "unknown"
             /\ \A j \in 0..(Len(apiKeys) - 1) :
                   keyStats'[j] = keyStats[j]]_vars

\* a key was added right after the first of two or more keys was removed,
\* and a slot that had been used kept a record with requests in it
C11_Witness ==
    /\ lastOp.name = "addApiKey" /\ lastOp.after = <<0>>
    /\ Len(apiKeys) = 3
    /\ DOMAIN keyStats = 0..2
    /\ keyStats[2] = ZeroStats
    /\ \E j \in 0..1 : keyStats[j].requests > 0

\* C12: removeApiKey(index) with index < 0 or index >= apiKeys.length does
\* nothing: apiKeys, keyStats and currentKeyIndex are as before (and so is
\* every other field), and nothing is raised.
C12_RemoveOutOfBoundsNoOp ==
    [][(lastOp'.name = "removeApiKey"
            /\ (lastOp'.arg < 0 \/ lastOp'.arg >= Len(apiKeys)))
          => UNCHANGED <<apiKeys, keyStats, currentKeyIndex, isConnected,
                         fallbackEnabled, calls>>]_vars

\* removeApiKey(2) was called on a ring of two keys
C12_Witness ==
    /\ lastOp.name = "removeApiKey"
    /\ lastOp.arg = 2 /\ lastOp.len = 2
    /\ Len(apiKeys) = 2

\* C13: switchToNextKey with two or more keys makes (currentKeyIndex + 1)
\* mod apiKeys.length current and returns the key at that index (index 2 of
\* three keys is followed by index 0); with fewer than two keys it returns
\* null and leaves currentKeyIndex as it is; the stats records do not
\* change either way.
C13_SwitchAdvancesModulo ==
    [][lastOp'.name = "switchToNextKey"
          => /\ IF Len(apiKeys) >= 2
                THEN /\ currentKeyIndex' =
                          (currentKeyIndex + 1) % Len(apiKeys)
                     /\ lastOp'.ret = <<apiKeys[currentKeyIndex' + 1]>>
                     /\ (Len(apiKeys) = 3 /\ currentKeyIndex = 2)
                            => currentKeyIndex' = 0
                ELSE /\ currentKeyIndex' = currentKeyIndex
                     /\ lastOp'.ret = <<>>
             /\ UNCHANGED <<apiKeys, keyStats>>]_vars

\* switchToNextKey has just wrapped from index 2 of three keys to index 0
\* and returned the first key
C13_Witness ==
    /\ lastOp.name = "switchToNextKey"
    /\ Len(apiKeys) = 3 /\ currentKeyIndex = 0
    /\ lastOp.ret = <<apiKeys[1]>>
    /\ keyStats[2].requests > 0

\* the slots that have had a request
UsedSlots == {i \in DOMAIN keyStats : keyStats[i].requests > 0}

\* C14: requests are balanced over the keys: when two or more keys are
\* configured and all of them are healthy (no request has ever failed),
\* two sendMessage calls that both succeeded have not both been issued with
\* the same key.  (loadBalanceEnabled is true from the constructor on.)
C14_RequestsDistributed ==
    \A c, d \in Callers :
        (/\ c # d
         /\ calls[c].pc = "returned"
         /\ Done(d) /\ calls[d].result.kind = "success"
         /\ Len(apiKeys) >= 2
         /\ \A i \in DOMAIN keyStats : keyStats[i].errors = 0)
            => Cardinality(UsedSlots) >= 2

\* ---------------------------------------------------- claims, SearchSystem
\* the index is the one buildSearchIndex leaves for the corpus `files`
BuiltFrom(files) == searchIndex = BuildIndex(files)

\* the positions of the documents the last search call returned
Returned == {searched.positions[k] : k \in DOMAIN searched.positions}

\* the lowercased whitespace-separated terms of the last query
QueryTerms ==
    LET terms == Split(ToLowerCase(searched.query))
    IN  {terms[k] : k \in DOMAIN terms}

\* no filter of the last search call is set
NoFilterSet ==
    /\ searched.filters.subject = "" /\ searched.filters.fileType = ""
    /\ searched.filters.examType = "" /\ searched.filters.dateRange = <<>>

\* the document at position p of the last search call's corpus
DocAt(p) == searched.files[p + 1]

\* document p is indexed under term
IndexedUnder(p, term) ==
    term \in DOMAIN searchIndex
        /\ \E k \in DOMAIN searchIndex[term] : searchIndex[term][k] = p

\* the lowercased name, content and subject of document p contain term
TextContains(p, term) ==
    Includes(ToLowerCase(DocAt(p).name \o " " \o DocAt(p).content \o " "
                            \o DocAt(p).subject), term)

\* C15: identity law: search with an empty query and a filter object
\* without keys returns the documents it was given, the same ones in the
\* same order, whatever corpus the index was built from.
C15_IdentityLaw ==
    (searched.called /\ searched.query = "" /\ searched.filters.keys = {})
        => searched.result = searched.files

\* the pass-through for two documents, with an index built from another
\* corpus
C15_Witness ==
    /\ searched.called /\ searched.query = ""
    /\ searched.filters.keys = {}
    /\ searched.files = <<DocVan, DocToan>>
    /\ searched.result = <<DocVan, DocToan>>
    /\ BuiltFrom(<<DocNotes>>)

\* C16: free-text search is AND-matching: with a query of several terms,
\* no filter and the index built from the corpus searched, every document
\* returned matches every term of the query (is indexed under it or
\* contains it).
C16_AndMatching ==
    (/\ searched.called /\ NoFilterSet
     /\ BuiltFrom(searched.files)
     /\ Cardinality(QueryTerms \ {""}) >= 2)
        => \A p \in Returned : \A term \in QueryTerms :
              IndexedUnder(p, term) \/ TextContains(p, term)

\* C17: with a query that is not empty, no filter and the index built from
\* the corpus searched, search returns exactly the documents indexed under
\* at least one lowercased term of the query together with the documents
\* whose lowercased name, content and subject contain every term; the
\* query 'toan' over [de_toan_2023.pdf / toanHoc, de_van_2022.pdf / vanHoc]
\* returns the first document only.
C17_TextResultSet ==
    (/\ searched.called /\ searched.query # "" /\ NoFilterSet
     /\ BuiltFrom(searched.files))
        => /\ Returned =
                {p \in 0..(Len(searched.files) - 1) :
                    \/ \E term \in QueryTerms : IndexedUnder(p, term)
                    \/ \A term \in QueryTerms : TextContains(p, term)}
           /\ searched.result =
                [k \in DOMAIN searched.positions |->
                    DocAt(searched.positions[k])]
           /\ (searched.query = "toan"
                    /\ searched.files = <<DocToan, DocVan>>)
                 => searched.result = <<DocToan>>

\* the query 'toan' over the two documents of the example
C17_Witness ==
    /\ searched.called /\ searched.query = "toan" /\ NoFilterSet
    /\ searched.files = <<DocToan, DocVan>>
    /\ BuiltFrom(searched.files)
    /\ searched.result = <<DocToan>>

\* document doc passes every filter that is set in the filter object f
Satisfies(doc, f) ==
    /\ f.subject # "" => doc.subject = f.subject
    /\ f.fileType # "" => doc.type = f.fileType
    /\ f.examType # "" => doc.examInfo.examType = f.examType
    /\ f.dateRange # <<>>
          => /\ doc.uploadDate # 0
             /\ f.dateRange[1] # 0 => f.dateRange[1] <= doc.uploadDate
             /\ f.dateRange[2] # 0 => doc.uploadDate <= f.dateRange[2]

\* C18: with an empty query and a filter object that has keys, search
\* returns exactly the documents that pass every filter that is set:
\* subject and type by equality, examType by equality with
\* metadata.examInfo.examType, dateRange by start <= uploadDate <= end
\* with a missing bound unbounded; a document without the field a set
\* filter needs is dropped.
C18_FiltersExact ==
    (searched.called /\ searched.query = "" /\ searched.filters.keys # {})
        => /\ Returned = {p \in 0..(Len(searched.files) - 1) :
                            Satisfies(DocAt(p), searched.filters)}
           /\ searched.result =
                [k \in DOMAIN searched.positions |->
                    DocAt(searched.positions[k])]

\* a date range with both bounds let one of two dated documents through
C18_Witness ==
    /\ searched.called /\ searched.query = ""
    /\ searched.filters.dateRange = <<1, 2>>
    /\ searched.files = <<DocToan, DocVan>>
    /\ searched.result = <<DocVan>>

\* C19: search returns the documents in corpus order: the positions of the
\* returned documents are strictly ascending, for every query and filter
\* object (the index built from the corpus searched).
C19_CorpusOrder ==
    (searched.called /\ BuiltFrom(searched.files))
        => \A j, k \in DOMAIN searched.positions :
              j < k => searched.positions[j] < searched.positions[k]

\* C20: search is repeatable and read-only: no search call changes the
\* index, and a search call made again with the same query, filters and
\* documents returns what the call before returned.
C20_RepeatableReadOnly ==
    [][/\ (searched'.called /\ searched' # searched)
          => searchIndex' = searchIndex
       /\ (searched.called /\ searched'.called)
          => /\ searched'.query = searched.query
             /\ searched'.filters = searched.filters
             /\ searched'.files = searched.files
             /\ searched'.result = searched.result]_vars

\* the query 'toan hoc' was searched twice in the corpus the index was
\* built from, and found a document
C20_Witness ==
    /\ searched.again
    /\ searched.query = "Toan HOC"
    /\ BuiltFrom(searched.files)
    /\ searched.result = <<DocNotes>>

\* term is a whitespace-separated token of more than 2 characters of the
\* lowercased text
TokenOf(term, text) ==
    LET lower == ToLowerCase(text)
        n == Len(term)
    IN  /\ n > 2
        /\ \A k \in 1..n : SubSeq(term, k, k) # " "
        /\ \E from \in 1..(Len(lower) - n + 1) :
              /\ SubSeq(lower, from, from + n - 1) = term
              /\ from = 1 \/ SubSeq(lower, from - 1, from - 1) = " "
              /\ from + n - 1 = Len(lower)
                    \/ SubSeq(lower, from + n, from + n) = " "

\* the texts buildSearchIndex reads from a document: name, content, subject
\* and the examInfo values
IndexedTexts(doc) ==
    {doc.name, doc.content, doc.subject, doc.examInfo.examType}
        \cup (IF doc.examInfo.year # 0 THEN {ToString(doc.examInfo.year)}
              ELSE {})

\* every piece of the lowercased text
Pieces(text) ==
    LET lower == ToLowerCase(text)
    IN  {SubSeq(lower, from, to) : from \in 1..Len(lower), to \in 1..Len(lower)}

\* the index maps term t to position i exactly when t is a token of one of
\* the indexed texts of document i of the corpus
IndexIsOf(index, files) ==
    /\ \A t \in DOMAIN index : \A k \in DOMAIN index[t] :
          /\ index[t][k] \in 0..(Len(files) - 1)
          /\ \E text \in IndexedTexts(files[index[t][k] + 1]) :
                TokenOf(t, text)
          /\ \A j \in DOMAIN index[t] : index[t][j] = index[t][k] => j = k
    /\ \A t \in DOMAIN index : index[t] # <<>>
    /\ \A i \in 0..(Len(files) - 1) :
          \A text \in IndexedTexts(files[i + 1]) :
             \A t \in Pieces(text) :
                TokenOf(t, text)
                   => /\ t \in DOMAIN index
                      /\ \E k \in DOMAIN index[t] : index[t][k] = i

\* C21: buildSearchIndex replaces the index: after any sequence of earlier
\* builds, the index buildSearchIndex(docs) leaves maps term t to position
\* i if and only if t is a lowercased whitespace-separated token of more
\* than 2 characters of the name, the content, the subject or an examInfo
\* value of document i of docs; nothing of an earlier corpus remains.
C21_BuildReplacesIndex ==
    [][(indexed' # indexed \/ searchIndex' # searchIndex)
          => IndexIsOf(searchIndex', indexed'.files)]_vars

\* an index with words in it was replaced by the index of the single
\* document de_van_2022.pdf
C21_Witness ==
    /\ indexed.replaced
    /\ indexed.files = <<DocVan>>
    /\ DOMAIN searchIndex = {"de_van_2022.pdf", "vanhoc", "midterm", "2022"}
    /\ \A t \in DOMAIN searchIndex : searchIndex[t] = <<0>>

\* ------------------------------------------- claims, SearchSystem utilities
\* the strings of a sequence
Elements(seq) == {seq[k] : k \in DOMAIN seq}

\* no element is in the sequence twice
NoRepeat(seq) == \A j, k \in DOMAIN seq : seq[j] = seq[k] => j = k

\* C22: getSuggestions('to', docs) returns an empty sequence when docs is
\* empty, and a sequence with the display name of subject toanHoc in it
\* when a document of docs has subject 'toanHoc'.
C22_SuggestionsForTo ==
    (answer.op = "getSuggestions" /\ answer.args[1] = "to")
        => /\ answer.args[2] = <<>> => answer.result = <<>>
           /\ (\E k \in DOMAIN answer.args[2] :
                   answer.args[2][k].subject = "toanHoc")
                 => GetSubjectName("toanHoc") \in Elements(answer.result)

\* C23: getSuggestions returns at most `limit` suggestions for every limit
\* the caller passes, never the same string twice, and an empty sequence
\* for a partial query of fewer than 2 characters.
C23_SuggestionsBounded ==
    answer.op = "getSuggestions"
        => /\ Len(answer.result) <= answer.args[3]
           /\ NoRepeat(answer.result)
           /\ Len(answer.args[1]) < 2 => answer.result = <<>>

\* the values of a field that are set in some document of the corpus
Present(files, field(_), unset) ==
    {field(files[k]) : k \in DOMAIN files} \ {unset}

\* C24: getAvailableFilters(docs) returns for subjects, fileTypes,
\* examTypes and years exactly the values present in the corpus, each
\* value once, and the years in strictly descending order.
C24_AvailableFiltersExact ==
    answer.op = "getAvailableFilters"
        => LET files == answer.args[1]
               r == answer.result
           IN  /\ Elements(r.subjects)
                    = Present(files, LAMBDA doc : doc.subject, "")
               /\ Elements(r.fileTypes)
                    = Present(files, LAMBDA doc : doc.type, "")
               /\ Elements(r.examTypes)
                    = Present(files, LAMBDA doc : doc.examInfo.examType, "")
               /\ Elements(r.years)
                    = Present(files, LAMBDA doc : doc.examInfo.year, 0)
               /\ NoRepeat(r.subjects) /\ NoRepeat(r.fileTypes)
               /\ NoRepeat(r.examTypes) /\ NoRepeat(r.years)
               /\ \A j, k \in DOMAIN r.years :
                     j < k => r.years[j] > r.years[k]

\* the filters of a corpus that lists the older exam first and has two
\* documents of one type
C24_Witness ==
    /\ answer.op = "getAvailableFilters"
    /\ answer.args[1] = <<DocVan, DocToan>>
    /\ answer.result.years = <<2023, 2022>>
    /\ answer.result.fileTypes = <<"pdf">>
    /\ answer.result.subjects = <<"vanHoc", "toanHoc">>

\* the text is the term at position `at`, in either case
OccursAt(text, at, term) ==
    /\ at + Len(term) - 1 <= Len(text)
    /\ ToLowerCase(SubSeq(text, at, at + Len(term) - 1)) = ToLowerCase(term)

RECURSIVE Wrapped(_, _, _)
\* the text from position `at` on with every occurrence of the term, taken
\* from left to right, between <mark> and </mark>
Wrapped(text, at, term) ==
    IF at > Len(text) THEN ""
    ELSE IF OccursAt(text, at, term)
         THEN "<mark>" \o SubSeq(text, at, at + Len(term) - 1) \o "</mark>"
                  \o Wrapped(text, at + Len(term), term)
         ELSE SubSeq(text, at, at) \o Wrapped(text, at + 1, term)

RECURSIVE Unmarked(_, _)
\* the text from position `at` on without the markers <mark> and </mark>
Unmarked(text, at) ==
    IF at > Len(text) THEN ""
    ELSE IF at + 5 <= Len(text) /\ SubSeq(text, at, at + 5) = "<mark>"
         THEN Unmarked(text, at + 6)
         ELSE IF at + 6 <= Len(text) /\ SubSeq(text, at, at + 6) = "</mark>"
              THEN Unmarked(text, at + 7)
              ELSE SubSeq(text, at, at) \o Unmarked(text, at + 1)

\* the terms of the query of the last highlightSearchTerms call
AnswerTerms == SelectSeq(Split(answer.args[2]), LAMBDA term : term # "")

\* C25: for a query of one term, highlightSearchTerms puts every
\* occurrence of the term, in either case, between <mark> and </mark> and
\* leaves every other character as it is, so that the text without the
\* markers is the text passed in; highlightSearchTerms('toan hoc', 'toan')
\* is '<mark>toan</mark> hoc'.
C25_HighlightWrapsOccurrences ==
    (answer.op = "highlightSearchTerms" /\ Len(AnswerTerms) = 1)
        => /\ answer.result = Wrapped(answer.args[1], 1, AnswerTerms[1])
           /\ Unmarked(answer.result, 1) = answer.args[1]
           /\ (answer.args[1] = "toan hoc" /\ answer.args[2] = "toan")
                 => answer.result = "<mark>toan</mark> hoc"

\* C26: search of the empty corpus returns the empty sequence for every
\* query and every filter object, those with malformed values included,
\* whatever index an earlier buildSearchIndex call left behind.
C26_EmptyCorpusEmptyResult ==
    (searched.called /\ searched.files = <<>>) => searched.result = <<>>

\* a text search of the empty corpus with a number as subject, over an
\* index that holds the term of the query at two positions
C26_Witness ==
    /\ searched.called
    /\ searched.files = <<>>
    /\ searched.query = "toan"
    /\ searched.filters \in MalformedFilterSets
    /\ searched.filters.subject = "123"
    /\ "toan" \in DOMAIN searchIndex
    /\ searchIndex["toan"] = <<0, 1>>
    /\ searched.result = <<>>

\* -------------------------------------------- claims, sendMessage errors
\* the kinds of message a failed request can leave as the last error
ErrorKinds(outcome) ==
    CASE outcome = "network"   -> {"network"}
      [] outcome = "malformed" -> {"malformed"}
      [] outcome = "http"      -> {"api"}
      [] outcome = "rate"      -> {"limited", "api"}
      [] OTHER                 -> {}

\* C27: when a sendMessage call ends in exhaustion, the error it returns
\* is the error recorded for the last request the call issued, not the
\* error of an earlier request.
C27_ExhaustionReportsLastError ==
    \A c \in Callers :
        (Done(c) /\ calls[c].result.kind = "failure")
            => /\ Log(c) # <<>>
               /\ calls[c].result.error.from = Len(Log(c))
               /\ calls[c].result.error.kind
                     \in ErrorKinds(Log(c)[Len(Log(c))].outcome)

\* a call whose first request failed on the network and whose second and
\* last request was refused by the server returns the server's error
C27_Witness ==
    \E c \in Callers :
        /\ Done(c)
        /\ calls[c].result.kind = "failure"
        /\ Len(Log(c)) = 2
        /\ Log(c)[1].outcome = "network"
        /\ Log(c)[2].outcome = "http"
        /\ calls[c].result.error = [kind |-> "api", key |-> 0, from |-> 2]

\* the request call c waits for is answered with outcome o in this step
Answered(c, o) ==
    /\ calls[c].pc = "waiting"
    /\ calls'[c].pc # "waiting" \/ Len(calls'[c].log) > Len(Log(c))
    /\ calls'[c].log[Len(Log(c))].outcome = o

\* the slot of the request call c waits for
Awaited(c) == Log(c)[Len(Log(c))].index

\* a slot of the ring that call c has not tried
Untried(c) == (0..(Len(apiKeys) - 1)) \ calls[c].triedKeys

\* C28: every request that ends in an error other than a rate limit (the
\* network fails, the payload is malformed, the server answers with another
\* HTTP error) leaves its slot with status 'error' and the error counter of
\* the slot one higher, and with fallback enabled the call goes on with a
\* request to the next slot as long as a slot is untried.
C28_ErrorMarksSlotAndMovesOn ==
    [][\A c \in Callers : \A o \in {"network", "malformed", "http"} :
          Answered(c, o)
              => /\ keyStats'[Awaited(c)].status = "error"
                 /\ keyStats'[Awaited(c)].errors
                       = keyStats[Awaited(c)].errors + 1
                 /\ (fallbackEnabled /\ Untried(c) # {})
                       => /\ calls'[c].pc = "waiting"
                          /\ Len(calls'[c].log) = Len(Log(c)) + 1
                          /\ calls'[c].log[Len(Log(c)) + 1].index
                                = (Awaited(c) + 1) % Len(apiKeys)
                          /\ calls'[c].log[Len(Log(c)) + 1].index
                                \in Untried(c)]_vars

\* the request to slot 1 of three came back malformed: the slot is in
\* error with one error counted, and the call waits for slot 2
C28_Witness ==
    \E c \in Callers :
        /\ fallbackEnabled /\ Len(apiKeys) = 3
        /\ calls[c].pc = "waiting"
        /\ Len(Log(c)) = 2
        /\ Log(c)[1] = [index |-> 1, key |-> apiKeys[2],
                        outcome |-> "malformed"]
        /\ Log(c)[2].index = 2
        /\ keyStats[1].status = "error" /\ keyStats[1].errors = 1
        /\ keyStats[1].requests = 1

\* the slot call c issues a request to in this step, if it issues one
Issued(c) ==
    IF Len(calls'[c].log) > Len(Log(c))
    THEN {calls'[c].log[Len(calls'[c].log)].index}
    ELSE {}

\* the slot whose request is answered in this step, if one is
AnsweredSlot(c) ==
    IF calls[c].pc = "waiting" THEN {Awaited(c)} ELSE {}

\* C29: a sendMessage call run on its own raises the requests counter of
\* each slot it attempts by exactly one and leaves the statistics
\* (requests, errors, lastUsed, status) of every slot it does not attempt
\* as they were: a step of the call issues at most one request, to a slot
\* the call has not attempted before, adds one to the requests counter of
\* that slot and to no other, and writes no statistics but those of the
\* slot answered and of the slot attempted.
C29_RequestsCountAttempts ==
    [][\A c \in Callers :
          calls'[c] # calls[c]
              => /\ Len(calls'[c].log) <= Len(Log(c)) + 1
                 /\ Issued(c) \cap Indices(c) = {}
                 /\ DOMAIN keyStats' = DOMAIN keyStats
                 /\ \A i \in DOMAIN keyStats :
                       /\ keyStats'[i].requests
                             = keyStats[i].requests
                                  + (IF i \in Issued(c) THEN 1 ELSE 0)
                       /\ i \notin Issued(c) \cup AnsweredSlot(c)
                             => keyStats'[i] = keyStats[i]]_vars

\* a call over three keys that started at slot 1 and succeeded at slot 2:
\* one request counted at each of the two, slot 0 as it was made
C29_Witness ==
    \E c \in Callers :
        /\ Done(c) /\ Len(apiKeys) = 3
        /\ Len(Log(c)) = 2
        /\ Log(c)[1].index = 1 /\ Log(c)[2].index = 2
        /\ calls[c].result = Success(2)
        /\ keyStats[1].requests = 1 /\ keyStats[2].requests = 1
        /\ keyStats[0] = ZeroStats

\* C30: currentKeyIndex persists across calls: when a sendMessage call has
\* succeeded, currentKeyIndex is the usedKeyIndex it returns, taking the
\* result leaves currentKeyIndex as it is, and a sendMessage call issues
\* its first request to the slot currentKeyIndex names when it starts.
C30_IndexPersists ==
    /\ [](\A c \in Callers :
             (Done(c) /\ calls[c].result.kind = "success")
                 => currentKeyIndex = calls[c].result.usedKeyIndex)
    /\ [][\A c \in Callers :
             /\ (Done(c) /\ calls'[c].pc = "returned")
                   => currentKeyIndex' = currentKeyIndex
             /\ (calls[c].pc = "idle" /\ calls'[c].pc = "waiting")
                   => calls'[c].log[1].index = currentKeyIndex]_vars

\* over two keys the first call failed at slot 0 and succeeded at slot 1;
\* the second call has issued its first request, to slot 1
C30_Witness ==
    \E c, d \in Callers :
        /\ calls[c].pc = "returned"
        /\ calls[d].pc = "waiting"
        /\ Len(apiKeys) = 2
        /\ Len(Log(d)) = 1 /\ Log(d)[1].index = 1
        /\ currentKeyIndex = 1
        /\ keyStats[0].requests = 1 /\ keyStats[0].errors = 1
        /\ keyStats[1].requests = 2 /\ keyStats[1].errors = 0

\* ------------------------------------------ claims, overlapping calls
\* C31: when two sendMessage calls overlap, the result and the statistics
\* of a call go to the slot the call used: the usedKeyIndex of a success is
\* the index of the request that succeeded, and the error counted for a
\* failed request is counted at the slot of that request, which gets the
\* status of the failure.
C31_AttributedToUsedSlot ==
    [][\A c \in Callers :
          /\ Answered(c, "ok")
                => /\ calls'[c].result.kind = "success"
                   /\ calls'[c].result.usedKeyIndex = Awaited(c)
          /\ \A o \in Outcomes \ {"ok"} :
                Answered(c, o)
                    => /\ keyStats'[Awaited(c)].errors
                             > keyStats[Awaited(c)].errors
                       /\ \A i \in DOMAIN keyStats :
                             i # Awaited(c) /\ i \notin Issued(c)
                                => keyStats'[i] = keyStats[i]]_vars

\* C32: when two sendMessage calls overlap with fallback enabled and no
\* key is added or removed, a call returns failure only after it has itself
\* attempted every slot; in particular, when exactly one slot is healthy
\* both calls succeed.
C32_OverlapTriesEverySlot ==
    \A c \in Callers :
        (Done(c) /\ fallbackEnabled)
            => /\ calls[c].result.kind = "failure"
                     => Indices(c) = 0..(Len(apiKeys) - 1)
               /\ \A h \in 0..(Len(apiKeys) - 1) :
                     OnlyHealthy(c, h) => calls[c].result.kind = "success"

\* ------------------------------------- claims, removal during a call
\* removeApiKey took a key out as the last operation before this step
JustRemoved ==
    /\ lastOp.name = "removeApiKey"
    /\ InBounds(lastOp.arg, lastOp.len)

\* C33: when removeApiKey has run while a sendMessage call waits for a
\* response, the call still ends by returning a result, it does not throw,
\* and the statistics it updates when the response arrives are those of an
\* index keyStats has a record for.
C33_RemovalDuringCallIsSafe ==
    [][\A c \in Callers : \A o \in Outcomes :
          (JustRemoved /\ Answered(c, o))
              => /\ currentKeyIndex \in DOMAIN keyStats
                 /\ calls'[c].result.kind # "throw"]_vars

\* ------------------------------------------- claims, ring invariants
\* C34: after any sequence of setApiKey, addApiKey, removeApiKey and
\* switchToNextKey calls on a new instance, keyStats has a record for
\* exactly the indices 0..apiKeys.length-1: one for every key, none for an
\* index without a key.
C34_StatsForExactlyTheKeys ==
    DOMAIN keyStats = 0..(Len(apiKeys) - 1)

\* C35: in every reachable state the error counter of every slot is at
\* most its request counter: a slot never has more failures recorded than
\* requests issued with it.
C35_ErrorsAtMostRequests ==
    \A i \in DOMAIN keyStats : keyStats[i].errors <= keyStats[i].requests

\* C36: removeApiKey(i) with i in bounds and i different from
\* currentKeyIndex does not change which key is current: getCurrentApiKey()
\* returns the same key after the removal as before it.
C36_RemoveOtherKeepsCurrentKey ==
    [][(/\ lastOp'.name = "removeApiKey"
        /\ InBounds(lastOp'.arg, Len(apiKeys))
        /\ lastOp'.arg # currentKeyIndex)
          => GetCurrentApiKey' = GetCurrentApiKey]_vars

\* ------------------------------------- claims, search over a stale index
\* C37: every element search returns is a document of the documents
\* argument, and no position of that argument is returned twice, also when
\* the index was built from a longer, shorter or reordered corpus than the
\* one passed to search.
C37_ResultsFromArgumentOnce ==
    searched.called
        => /\ Len(searched.result) = Len(searched.positions)
           /\ NoRepeat(searched.positions)
           /\ \A k \in DOMAIN searched.positions :
                 /\ searched.positions[k] \in 0..(Len(searched.files) - 1)
                 /\ searched.result[k] = DocAt(searched.positions[k])

\* the index was built from two documents and holds the term at position
\* 1; the search is over the second of them alone, which has no position 1,
\* and returns that document once, at position 0
C37_Witness ==
    /\ searched.called
    /\ searched.query = "toan"
    /\ searched.files = <<DocNotes>>
    /\ indexed.files = <<DocToan, DocNotes>>
    /\ "toan" \in DOMAIN searchIndex
    /\ searchIndex["toan"] = <<1>>
    /\ "de_toan_2023.pdf" \in DOMAIN searchIndex
    /\ searched.positions = <<0>>
    /\ searched.result = <<DocNotes>>

\* ------------------------------------------- claims, the search history
\* C38: after any sequence of saveSearchHistory calls the stored history
\* has at most 10 entries and no entry twice, and its first entry is the
\* trimmed text of the last query saved that was not blank; a blank query
\* leaves the stored history as it is.
C38_HistoryBoundedRecentFirst ==
    /\ [](/\ Len(GetSearchHistory) <= 10
          /\ NoRepeat(GetSearchHistory)
          /\ saved.recent # ""
                => /\ GetSearchHistory # <<>>
                   /\ \E before, after \in 0..Len(saved.recent) :
                         /\ saved.recent
                               = SubSeq("          ", 1, before)
                                    \o GetSearchHistory[1]
                                    \o SubSeq("          ", 1, after)
                         /\ SubSeq(GetSearchHistory[1], 1, 1) # " "
                         /\ SubSeq(GetSearchHistory[1],
                                   Len(GetSearchHistory[1]),
                                   Len(GetSearchHistory[1])) # " ")
    /\ [][(saved'.count > saved.count /\ ~TrimsToText(saved'.query))
             => storage' = storage]_vars

\* the history was full; ' van ' was saved, which moved 'van' to the front,
\* and then 'final', which pushed the oldest entry out
C38_Witness ==
    /\ saved.count = 2
    /\ saved.recent = "final"
    /\ GetSearchHistory
          = <<"final", "van", "toan", "ly", "hoa", "sinh", "su", "dia", "anh",
              "tin">>

\* ------------------------------------------------- claims, the chat
\* C39: disconnect() on a connected chat transmits a user_leave system
\* message through the socket: the message is handed to socket.send, so
\* that every disconnect of a connected session is announced.
C39_DisconnectAnnounced ==
    [][(chat.connected /\ chat.socket /\ chat'.op = "disconnect"
                       /\ chat' # chat)
          => chat'.sent = Append(chat.sent, "user_leave")]_vars

====
